---- MODULE Spec2Model ----
(***************************************************************************)
(* Model of the vocal-separator task lifecycle: the separation workflow    *)
(* separate_file and the single-file command separate (separator.py), the  *)
(* batch command main with batch_process, its worker process_file and its  *)
(* file discovery find_audio_files (batch.py), and the GUI worker          *)
(* run_batch with its log, the settings action save_config, and the        *)
(* window's _start, _stop and _poll_progress (app_gui.py).                 *)
(*                                                                         *)
(* A network call (requests.post / requests.get) is one atomic step: the   *)
(* request is issued and the remote service, which is a black box, picks   *)
(* the response.  The cancellation signal is set by its owner (the GUI     *)
(* thread, _stop) at any moment between two steps.                         *)
(***************************************************************************)
EXTENDS Integers, Sequences, FiniteSets, TLC

\* ------------------------------------------------------------------ bounds
\* MaxFiles: invocations of a run of the batch command or of the GUI worker.
\* MaxPolls: the remote service changes
\* its "not done yet" answer fewer than MaxPolls times in one run, so net
\* holds at most MaxPolls status answers of an invocation.  MaxTargets:
\* targets in a snapshot answered to a direct invocation.
MaxFiles == 2
MaxPolls == 2
MaxTargets == 2

\* separate_file requests exactly one target: create_task(asset_id, [target]).
RequestedTargets == 1

VARIABLES
    mode,       \* which entry point drives the run: "direct", "separate",
                \* "batch", "gui" (run_batch by itself), "app" (the
                \* application window with its worker), "twin" (one
                \* invocation with quiet and one without, side by side), or
                \* "discover" (find_audio_files by itself)
    env,        \* os.environ["AUDIOSHAKE_API_KEY"], NoKey when it is not set
    exit,       \* the exit status of the process, Alive while it runs
    tree,       \* the files of the file system
    argv,       \* the input paths on the command line (args.input)
    recursive,  \* args.recursive
    ai,         \* batch main: number of inputs it has gone through
    found,      \* what the last call of find_audio_files returned
    nfiles,     \* number of input paths submitted so far (files are 1..nfiles;
                \* each Start of the application submits its list anew)
    fileKind,   \* per file: "ok", "missing" or "badext"
    paths,      \* per file: its input path, as directory, base name, extension
    cancel,     \* the cancellation signal (threading.Event cancel_event)
    inv,        \* per file: the frame of its separate_file invocation
    net,        \* per file: the requests its invocation issued, with responses
    disk,       \* output files written so far
    max_workers,\* batch_process: the worker bound W
    queue,      \* batch_process: submitted work items no worker has taken yet
    results,    \* batch_process: the results list
    collected,  \* batch_process: futures already yielded by as_completed
    bpc,        \* batch_process: position of the main thread
    gpc,        \* run_batch: position of the GUI worker thread
    gi,         \* run_batch: loop index i (0-based, as enumerate gives it)
    events,     \* run_batch: progress_queue contents, in put order
    bound,      \* run_batch: keyword names the bound separate_file accepts
    log_enabled,\* run_batch: its log_enabled argument (with a log path)
    log,        \* write attempts on the log file since the session began
    polling,    \* the application: a call of _poll_progress is scheduled
    consumed,   \* the application: events _poll_progress took off the queue
    start_btn,  \* the application: state of the Start button
    stop_btn,   \* the application: state of the Stop button
    file_list,  \* the application: the paths in its file list
    turn        \* paired invocations: the one that takes the next step

vars == <<mode, env, exit, tree, argv, recursive, ai, found, nfiles, fileKind, paths,
          cancel, inv, net, disk, max_workers, queue, results, collected, bpc,
          gpc, gi, events, bound, log_enabled, log, polling, consumed,
          start_btn, stop_btn, file_list, turn>>

wfvars == <<inv, net, disk>>
batchvars == <<max_workers, queue, results, collected, bpc>>
appvars == <<log_enabled, log, polling, consumed, start_btn, stop_btn, file_list>>
guivars == <<gpc, gi, events, bound, appvars, turn>>
envvars == <<mode, nfiles, fileKind, paths>>
cmdvars == <<env, exit, tree, argv, recursive, ai, found>>

Files == 1..nfiles

\* ------------------------------------------------------------ input paths
\* A suffix is the sequence of its characters, the dot first; a name without
\* a suffix has <<>>.  Letters lists the letters that occur, in both cases.
Letters ==
    << <<"a", "A">>, <<"c", "C">>, <<"f", "F">>, <<"g", "G">>, <<"l", "L">>,
       <<"m", "M">>, <<"o", "O">>, <<"p", "P">>, <<"t", "T">>, <<"v", "V">>,
       <<"w", "W">>, <<"x", "X">> >>

\* str.lower() and str.upper(), character by character
LowerChar(c) ==
    IF \E k \in DOMAIN Letters : Letters[k][2] = c
    THEN Letters[CHOOSE k \in DOMAIN Letters : Letters[k][2] = c][1]
    ELSE c

UpperChar(c) ==
    IF \E k \in DOMAIN Letters : Letters[k][1] = c
    THEN Letters[CHOOSE k \in DOMAIN Letters : Letters[k][1] = c][2]
    ELSE c

Lower(s) == [k \in DOMAIN s |-> LowerChar(s[k])]
Upper(s) == [k \in DOMAIN s |-> UpperChar(s[k])]

VALID_EXTENSIONS ==
    { <<".", "m", "p", "3">>, <<".", "w", "a", "v">>, <<".", "f", "l", "a", "c">>,
      <<".", "m", "4", "a">>, <<".", "o", "g", "g">>, <<".", "a", "a", "c">>,
      <<".", "w", "m", "a">> }

\* A path: the parts of its directory, and its name as stem and suffix
InputPath(d, b, x) == [dir |-> d, base |-> b, ext |-> x]

\* The audio files under the input directory, in the order sorted() gives
\* them: two of them share the base name, in different directories and with
\* different extensions.
FoundFiles ==
    << InputPath(<<"in">>, "other", <<".", "m", "p", "3">>),
       InputPath(<<"in">>, "song", <<".", "m", "p", "3">>),
       InputPath(<<"in", "sub">>, "song", <<".", "w", "a", "v">>) >>

\* find_audio_files: sorted(set(files)), n of the files found
SortedFiles(n) ==
    {f \in [1..n -> 1..Len(FoundFiles)] : \A a, b \in 1..n : a < b => f[a] < f[b]}

\* is_valid_audio_file accepting every suffix.
is_valid_audio_file_AnySuffix(file_path) == TRUE

\* is_valid_audio_file comparing the suffix as it is written.
is_valid_audio_file_CaseSensitive(file_path) == file_path.ext \in VALID_EXTENSIONS

\* is_valid_audio_file: file_path.suffix.lower() in VALID_EXTENSIONS
is_valid_audio_file(file_path) == Lower(file_path.ext) \in VALID_EXTENSIONS

\* ------------------------------------------------------------ file system
\* The files a tree may hold, in the order Path.__lt__ gives them (part by
\* part, by character code: upper case before lower case).
AllFiles ==
    << InputPath(<<"in">>, "LOUD", <<".", "M", "P", "3">>),
       InputPath(<<"in">>, "Mixed", <<".", "M", "p", "3">>),
       InputPath(<<"in">>, "notes", <<".", "t", "x", "t">>),
       InputPath(<<"in">>, "other", <<".", "m", "p", "3">>),
       InputPath(<<"in">>, "song", <<".", "m", "p", "3">>),
       InputPath(<<"in", "sub">>, "song", <<".", "w", "a", "v">>) >>

\* The directories in and in/sub
InDir == InputPath(<<>>, "in", <<>>)
SubDir == InputPath(<<"in">>, "sub", <<>>)

\* One file per suffix and casing, for find_audio_files on a single file:
\* each supported suffix in lower case, in upper case and capitalised, and
\* names with an unsupported suffix, a longer one, or none.
Capitalised(x) == [k \in DOMAIN x |-> IF k = 2 THEN UpperChar(x[k]) ELSE x[k]]

SuffixSamples ==
    VALID_EXTENSIONS \cup {Upper(x) : x \in VALID_EXTENSIONS}
    \cup {Capitalised(x) : x \in VALID_EXTENSIONS}
    \cup { <<".", "t", "x", "t">>, <<".", "T", "X", "T">>, <<".", "m", "p", "3", "x">>,
           <<".", "m", "p">>, <<>> }

Path_is_file(p) == p \in tree

\* input_file.parent, of a file
Parent(p) == InputPath(SubSeq(p.dir, 1, Len(p.dir) - 1), p.dir[Len(p.dir)], <<>>)

Parts(d) == Append(d.dir, d.base)

IsPrefix(a, b) == Len(a) <= Len(b) /\ SubSeq(b, 1, Len(a)) = a

\* input_path.glob("*" + x) and input_path.rglob("*" + x): the files in the
\* directory (under it, for rglob) whose name ends with x, as written
Glob(d, x, deep) ==
    {f \in tree : /\ IF deep THEN IsPrefix(Parts(d), f.dir) ELSE f.dir = Parts(d)
                  /\ f.ext = x}

Rank(p) == CHOOSE k \in DOMAIN AllFiles : AllFiles[k] = p

\* sorted(set(files))
RECURSIVE Sorted(_)
Sorted(S) ==
    IF S = {} THEN <<>>
    ELSE LET m == CHOOSE x \in S : \A y \in S : Rank(x) <= Rank(y)
         IN  <<m>> \o Sorted(S \ {m})

\* find_audio_files (batch.py)
find_audio_files(input_path, deep) ==
    IF Path_is_file(input_path)
    THEN IF is_valid_audio_file(input_path) THEN <<input_path>> ELSE <<>>
    ELSE Sorted(UNION {Glob(input_path, x, deep) \cup Glob(input_path, Upper(x), deep) :
                       x \in VALID_EXTENSIONS})

\* ------------------------------------------------------------ credential
NoKey == ""

\* The key the environment holds at startup when it holds one, and the keys
\* typed into the settings tab: the tab is used during the runs that have
\* fewer files than the largest ones.
StartKey == "k1"
TypedKeys == IF nfiles < MaxFiles THEN {"k2"} ELSE {}

\* get_api_key: os.getenv("AUDIOSHAKE_API_KEY")
get_api_key == env

\* check_api_key
check_api_key == get_api_key # NoKey

\* get_headers sending a credential of its own.
get_headers_Fixed == [x_api_key |-> "k1"]

\* get_headers: {"x-api-key": get_api_key() or ""}
get_headers == [x_api_key |-> get_api_key]

\* A request sent without headers= (download_stems)
NoHeaders == [x_api_key |-> "-"]

\* The exit status while the process runs
Alive == -1

\* ------------------------------------------------------------ remote values
NoneId == <<>>
AssetIdOf(i) == <<"asset", i>>
TaskIdOf(i) == <<"task", i>>

\* ------------------------------------------------------------ links
\* The text of a URL, cut into tokens: "/", "." and "?" are those characters,
\* any other token is a run of other characters.  NoLink: the output has none.
NoLink == <<>>

\* .../vocals.wav, .../foo.wav?token=x, .../foo.wav?token=a.b and .../foo
LinkPlain == <<"host", "/", "vocals", ".", "wav">>
LinkWithQuery == <<"host", "/", "foo", ".", "wav", "?", "token=x">>
LinkDottedQuery == <<"host", "/", "foo", ".", "wav", "?", "token=a", ".", "b">>
LinkNoSuffix == <<"host", "/", "foo">>
Links == {LinkPlain, LinkWithQuery, LinkDottedQuery, LinkNoSuffix}

\* str.rfind and str.find, counting from 1; 0 when c is not in s
RECURSIVE LastIndexOf(_, _, _)
LastIndexOf(s, c, k) ==
    IF k = 0 THEN 0 ELSE IF s[k] = c THEN k ELSE LastIndexOf(s, c, k - 1)

RECURSIVE FirstIndexOf(_, _, _)
FirstIndexOf(s, c, k) ==
    IF k > Len(s) THEN 0 ELSE IF s[k] = c THEN k ELSE FirstIndexOf(s, c, k + 1)

\* Path(s).name: the last component of s
PathName(s) == SubSeq(s, LastIndexOf(s, "/", Len(s)) + 1, Len(s))

\* Path(s).suffix: the name from its last dot on, unless that dot is the
\* first or the last character of the name
PathSuffix(s) ==
    LET name == PathName(s)
        i == LastIndexOf(name, ".", Len(name))
    IN  IF 1 < i /\ i < Len(name) THEN SubSeq(name, i, Len(name)) ELSE <<>>

\* s.split("?")[0]
BeforeQuery(s) ==
    LET q == FirstIndexOf(s, "?", 1)
    IN  IF q = 0 THEN s ELSE SubSeq(s, 1, q - 1)

DefaultExtension == <<".", "wav">>

\* extension = Path(stem_url).suffix.split("?")[0] or ".wav"
Extension(stem_url) ==
    LET e == BeforeQuery(PathSuffix(stem_url))
    IN  IF e = <<>> THEN DefaultExtension ELSE e

\* target.output: the reference request asks one format per target, so a
\* target carries at most one output; its link may be absent.  The service
\* names the output of the k-th target of a task OutputNames[k].
OutputNames == <<"vocals", "instrumental", "drums", "bass">>

TargetOutputs ==
    {<<>>} \cup {<<[name |-> "vocals", link |-> l]>> : l \in {NoLink, LinkWithQuery}}

\* target.error: the error text of a failed target, NoError when it has none.
NoError == "-"
ErrorTexts == {NoError, "corrupt input"}

TargetValues ==
    [status : {"pending", "processing"}, output : {<<>>}, error : {NoError}]
    \cup [status : {"failed"}, output : {<<>>}, error : ErrorTexts]
    \cup [status : {"completed"}, output : TargetOutputs, error : {NoError}]

\* One target value for each way a status answer can go: not done yet,
\* failed, completed with a link to download, completed with nothing to
\* download.
BatchTargetValues ==
    {[status |-> "pending", output |-> <<>>, error |-> NoError],
     [status |-> "failed", output |-> <<>>, error |-> "corrupt input"],
     [status |-> "completed", output |-> <<>>, error |-> NoError],
     [status |-> "completed", output |-> <<[name |-> "vocals", link |-> LinkWithQuery]>>,
      error |-> NoError]}

SeqsUpTo(S, n) == UNION {[1..k -> S] : k \in 0..n}

\* GET /tasks/{id} bodies: a targets array (possibly empty) or none at all.
WithNames(t) ==
    [k \in DOMAIN t |->
        IF t[k].output = <<>> THEN t[k]
        ELSE [t[k] EXCEPT !.output = <<[@[1] EXCEPT !.name = OutputNames[k]]>>]]

\* The answers drawn: every sequence of up to n target values, and for each
\* other shape of link one completed target that carries it.
Snapshots(n) ==
    {[missing |-> TRUE, targets |-> <<>>]}
    \cup {[missing |-> FALSE, targets |-> WithNames(t)] : t \in SeqsUpTo(TargetValues, n)}
    \cup {[missing |-> FALSE,
           targets |-> <<[status |-> "completed", error |-> NoError,
                          output |-> <<[name |-> OutputNames[1], link |-> l]>>]>>] :
           l \in Links}

NoData == [none |-> TRUE, missing |-> TRUE, targets |-> <<>>]
Data(s) == [none |-> FALSE, missing |-> s.missing, targets |-> s.targets]

\* ------------------------------------------------------------ _task_done
TargetsOf(data) == IF data.missing THEN <<>> ELSE data.targets

\* _task_done with any() where the code has all(): one completed target would
\* be enough to stop waiting.
TaskDone_AnyCompleted(data) ==
    LET targets == TargetsOf(data)
    IN  IF targets = <<>>
        THEN <<FALSE, FALSE>>
        ELSE << \E k \in DOMAIN targets : targets[k].status = "completed",
                \E k \in DOMAIN targets : targets[k].status = "failed" >>

\* _task_done without "if not targets": all() of no statuses is True.
TaskDone_NoEmptyGuard(data) ==
    LET targets == TargetsOf(data)
    IN  << \A k \in DOMAIN targets : targets[k].status = "completed",
           \E k \in DOMAIN targets : targets[k].status = "failed" >>

TaskDone(data) ==
    LET targets == TargetsOf(data)
        statuses == [k \in DOMAIN targets |-> targets[k].status]
    IN  IF targets = <<>>
        THEN <<FALSE, FALSE>>
        ELSE << \A k \in DOMAIN statuses : statuses[k] = "completed",
                \E k \in DOMAIN statuses : statuses[k] = "failed" >>

\* --------------------------------------------------- download_stems: stems
RECURSIVE StemsFrom(_, _)
StemsFrom(targets, k) ==
    IF k > Len(targets) THEN <<>>
    ELSE LET out == targets[k].output
             here == IF out # <<>> /\ out[1].link # NoLink
                     THEN <<[target |-> k, name |-> out[1].name, link |-> out[1].link]>>
                     ELSE <<>>
         IN  here \o StemsFrom(targets, k + 1)

Stems(task_data) == StemsFrom(TargetsOf(task_data), 1)

\* ------------------------------------------------------------ frames
NoOutcome == [kind |-> "none", val |-> FALSE, exc |-> "-"]
Returned(b) == [kind |-> "return", val |-> b, exc |-> "-"]
Raised(e) == [kind |-> "raise", val |-> FALSE, exc |-> e]

\* printed: the "Task failed: ..." line the invocation wrote to the console.
NothingPrinted == "-"

Frame(c, q) ==
    [pc |-> "idle", cancel_check |-> c, quiet |-> q, asset_id |-> NoneId,
     task_id |-> NoneId, task_data |-> NoData, stems |-> <<>>,
     saved_files |-> <<>>, printed |-> NothingPrinted, outcome |-> NoOutcome]

\* The frame after separate_file left it: locals are gone, the outcome stays.
Leave(f, o) ==
    [f EXCEPT !.pc = "done", !.asset_id = NoneId, !.task_id = NoneId,
              !.task_data = NoData, !.stems = <<>>, !.saved_files = <<>>,
              !.outcome = o]

\* ------------------------------------------------------------ the network
\* What the remote service answered.  For a 200 answer to GET /tasks/{id} the
\* entry also records what the returned snapshot was on the service's side.
\* (completed: the targets list is there, is not empty and every target is
\* "completed"; failed: some target is "failed"; stems: the outputs with a
\* link of a completed snapshot).
Resp(code) ==
    [code |-> code, completed |-> FALSE, failed |-> FALSE, some_completed |-> FALSE,
     shape |-> "-", error |-> NoError, stems |-> <<>>]

\* The error text of the first failed target of a targets list.
RECURSIVE FirstFailedError(_, _)
FirstFailedError(targets, k) ==
    IF k > Len(targets) THEN NoError
    ELSE IF targets[k].status = "failed" THEN targets[k].error
    ELSE FirstFailedError(targets, k + 1)

SnapshotResp(s) ==
    [code |-> "200",
     completed |-> /\ ~s.missing
                   /\ s.targets # <<>>
                   /\ \A k \in DOMAIN s.targets : s.targets[k].status = "completed",
     failed |-> /\ ~s.missing
                /\ \E k \in DOMAIN s.targets : s.targets[k].status = "failed",
     some_completed |-> /\ ~s.missing
                        /\ \E k \in DOMAIN s.targets : s.targets[k].status = "completed",
     shape |-> IF s.missing THEN "missing" ELSE IF s.targets = <<>> THEN "empty" ELSE "some",
     error |-> IF s.missing THEN NoError ELSE FirstFailedError(s.targets, 1),
     stems |-> IF /\ ~s.missing
                  /\ s.targets # <<>>
                  /\ \A k \in DOMAIN s.targets : s.targets[k].status = "completed"
               THEN StemsFrom(s.targets, 1) ELSE <<>>]

Request(kind, arg, resp, headers) ==
    [kind |-> kind, arg |-> arg, resp |-> resp, headers |-> headers]

\* requests.post / requests.get: headers=get_headers() everywhere but in
\* download_stems, which passes none
Issue(i, kind, arg, resp) ==
    net' = [net EXCEPT ![i] =
              Append(@, Request(kind, arg, resp,
                                IF kind = "download" THEN NoHeaders ELSE get_headers))]

\* Status answers of the run so far that said "not done yet".
NotDoneYet(i) ==
    Cardinality({k \in DOMAIN net[i] :
        /\ net[i][k].kind = "status"
        /\ net[i][k].resp.code = "200"
        /\ ~net[i][k].resp.failed
        /\ ~net[i][k].resp.completed})

RECURSIVE SumNotDoneYet(_)
SumNotDoneYet(n) == IF n = 0 THEN 0 ELSE NotDoneYet(n) + SumNotDoneYet(n - 1)

\* Of two paired invocations the second is answered what the first was, so
\* only the first one's answers count.
PollsUsed == IF mode = "twin" THEN NotDoneYet(1) ELSE SumNotDoneYet(nfiles)

\* A direct invocation is answered every kind of response and any snapshot of up
\* to MaxTargets targets.  In a batch the service answers for the targets that
\* were requested, and each way a call can end is drawn once: "status" stands
\* for every unsuccessful answer that is not 401.
Direct == mode \in {"direct", "separate", "twin"}
StatusBodies ==
    IF Direct THEN Snapshots(MaxTargets)
    ELSE {[missing |-> FALSE, targets |-> t] : t \in [1..RequestedTargets -> BatchTargetValues]}

UploadResponses ==
    IF Direct THEN {"200", "200_noid", "401", "status", "transport"}
    ELSE {"200", "401", "status"}
CreateResponses ==
    IF Direct THEN {"200", "201", "200_noid", "401", "status", "transport"}
    ELSE {"201", "401", "status"}
StatusErrors == IF Direct THEN {"401", "status", "transport"} ELSE {"401", "status"}
DownloadResponses ==
    IF Direct THEN {"200", "401", "status", "transport", "midstream"} ELSE {"200", "status"}

\* ------------------------------------------------------------ upload_file
\* upload_file without its status check: whatever the answer, short of 401,
\* it returns an asset id.
upload_file_NoStatusCheck(i, r) ==
    IF r = "401" THEN [exc |-> "AuthenticationError", id |-> NoneId]
    ELSE [exc |-> "-", id |-> AssetIdOf(i)]

\* The returned asset id (NoneId for None), or the exception raised.
upload_file(i, r) ==
    IF r = "401" THEN [exc |-> "AuthenticationError", id |-> NoneId]
    ELSE IF r # "200" /\ r # "200_noid" THEN [exc |-> "-", id |-> NoneId]
    ELSE [exc |-> "-", id |-> IF r = "200" THEN AssetIdOf(i) ELSE NoneId]

\* ------------------------------------------------------------ create_task
\* create_task without its status check: whatever the answer, short of 401,
\* it returns a task id.
create_task_NoStatusCheck(i, r) ==
    IF r = "401" THEN [exc |-> "AuthenticationError", id |-> NoneId]
    ELSE [exc |-> "-", id |-> TaskIdOf(i)]

\* create_task returning the asset id it was given in place of the task id.
create_task_ReturnsAssetId(i, r) ==
    IF r = "401" THEN [exc |-> "AuthenticationError", id |-> NoneId]
    ELSE IF r \notin {"200", "201", "200_noid"} THEN [exc |-> "-", id |-> NoneId]
    ELSE [exc |-> "-", id |-> IF r = "200_noid" THEN NoneId ELSE AssetIdOf(i)]

create_task(i, r) ==
    IF r = "401" THEN [exc |-> "AuthenticationError", id |-> NoneId]
    ELSE IF r \notin {"200", "201", "200_noid"} THEN [exc |-> "-", id |-> NoneId]
    ELSE [exc |-> "-", id |-> IF r = "200_noid" THEN NoneId ELSE TaskIdOf(i)]

\* wait_for_completion without lines 180-181 and 208-209.
CancelRequested_Never(f) == FALSE

\* wait_for_completion without lines 208-209: only the quiet loop checks.
CancelRequested_QuietOnly(f) == f.quiet /\ f.cancel_check /\ cancel

\* cancel_check and cancel_check()
CancelRequested(f) == f.cancel_check /\ cancel

\* ------------------------------------------------------------ separate_file
\* Two invocations run side by side on the same input, the first with quiet,
\* the second without: they take their steps in turn, and the service
\* answers the second what it answered the first (at a status fetch, a new
\* answer or the repetition of the last one, as for the first, and the same
\* body if the second keeps it).
Paired ==
    IF mode # "twin" THEN turn' = turn
    ELSE /\ inv'[turn] # inv[turn]
         /\ turn' = 3 - turn
         /\ turn = 2 =>
              /\ inv[2].pc = "poll_fetch" =>
                    /\ Len(net'[2]) = Len(net[1])
                    /\ inv'[2].pc = "download" => inv'[2].task_data = inv[1].task_data
              /\ (Len(net'[2]) = Len(net[1]) /\ net'[2] # <<>>)
                    => net'[2][Len(net'[2])].resp = net[1][Len(net[1])].resp

\* A step of an invocation touches neither the signal nor its driver.
Rest ==
    /\ UNCHANGED <<envvars, cmdvars, cancel, batchvars, gpc, gi, events, bound, appvars>>
    /\ Paired

\* Entry: the two validations, before any network call.
Enter(i) ==
    /\ inv[i].pc = "entry"
    /\ inv' = [inv EXCEPT ![i] =
                 IF fileKind[i] = "missing" THEN Leave(@, Returned(FALSE))
                 ELSE IF ~is_valid_audio_file(paths[i]) THEN Leave(@, Returned(FALSE))
                 ELSE [@ EXCEPT !.pc = "upload"]]
    /\ UNCHANGED <<net, disk>>
    /\ Rest

\* asset_id = upload_file(input_file, quiet)
Upload(i) ==
    /\ inv[i].pc = "upload"
    /\ \E r \in UploadResponses :
         LET u == upload_file(i, r) IN
         /\ Issue(i, "upload", <<"file", i>>, Resp(r))
         /\ inv' = [inv EXCEPT ![i] =
                      IF u.exc # "-" THEN Leave(@, Raised(u.exc))
                      ELSE IF u.id = NoneId THEN Leave(@, Returned(FALSE))
                      ELSE [@ EXCEPT !.asset_id = u.id, !.pc = "create"]]
    /\ UNCHANGED disk
    /\ Rest

\* task_id = create_task(asset_id, [target], quiet=quiet)
CreateTask(i) ==
    /\ inv[i].pc = "create"
    /\ \E r \in CreateResponses :
         LET t == create_task(i, r) IN
         /\ Issue(i, "create", inv[i].asset_id, Resp(r))
         /\ inv' = [inv EXCEPT ![i] =
                      IF t.exc # "-" THEN Leave(@, Raised(t.exc))
                      ELSE IF t.id = NoneId THEN Leave(@, Returned(FALSE))
                      ELSE [@ EXCEPT !.task_id = t.id, !.pc = "poll_check"]]
    /\ UNCHANGED disk
    /\ Rest

\* wait_for_completion, top of the loop: if cancel_check and cancel_check()
PollCheck(i) ==
    /\ inv[i].pc = "poll_check"
    /\ inv' = [inv EXCEPT ![i] =
                 IF CancelRequested(@) THEN Leave(@, Returned(FALSE))
                 ELSE [@ EXCEPT !.pc = "poll_fetch"]]
    /\ UNCHANGED <<net, disk>>
    /\ Rest

\* for t in targets: if t.get("status") == "failed":
\*     err = t.get("error", "Unknown error"); print; break
RECURSIVE TaskFailedText(_, _)
TaskFailedText(targets, k) ==
    IF k > Len(targets) THEN NothingPrinted
    ELSE IF targets[k].status = "failed"
         THEN (IF targets[k].error = NoError THEN "Unknown error" ELSE targets[k].error)
         ELSE TaskFailedText(targets, k + 1)

\* wait_for_completion going back to the top of its loop without sleeping.
AfterSnapshot_NoSleep(f, data) ==
    LET td == TaskDone(data) IN
    IF td[2] THEN Leave(f, Returned(FALSE))
    ELSE IF td[1]
         THEN IF Stems(data) = <<>> THEN Leave(f, Returned(FALSE))
              ELSE [f EXCEPT !.task_data = data, !.stems = Stems(data), !.pc = "download"]
         ELSE [f EXCEPT !.pc = "poll_check"]

\* What separate_file does with the snapshot a 200 status answer carried.
AfterSnapshot(f, data) ==
    LET td == TaskDone(data) IN
    IF td[2]
    THEN Leave([f EXCEPT !.printed = IF f.quiet THEN NothingPrinted
                                     ELSE TaskFailedText(TargetsOf(data), 1)],
               Returned(FALSE))
    ELSE IF td[1]
         THEN IF Stems(data) = <<>> THEN Leave(f, Returned(FALSE))
              ELSE [f EXCEPT !.task_data = data, !.stems = Stems(data), !.pc = "download"]
         ELSE [f EXCEPT !.pc = "sleep"]

\* wait_for_completion: requests.get(url) and the classification of the answer.
\* The service may repeat its last "not done yet" answer any number of times:
\* net keeps one entry for the repeated answer, with the headers of the latest
\* request that got it.
PollFetch(i) ==
    /\ inv[i].pc = "poll_fetch"
    /\ \/ \E r \in StatusErrors :
            /\ Issue(i, "status", inv[i].task_id, Resp(r))
            /\ inv' = [inv EXCEPT ![i] =
                         IF r = "401" THEN Leave(@, Raised("AuthenticationError"))
                         ELSE Leave(@, Returned(FALSE))]
       \/ \E s \in StatusBodies :
            /\ LET r == SnapshotResp(s) IN
                 r.completed \/ r.failed \/ (i = 2 /\ mode = "twin") \/ PollsUsed + 1 < MaxPolls
            /\ Issue(i, "status", inv[i].task_id, SnapshotResp(s))
            /\ inv' = [inv EXCEPT ![i] = AfterSnapshot(@, Data(s))]
       \/ /\ net[i] # <<>>
          /\ LET e == net[i][Len(net[i])] IN
               e.kind = "status" /\ e.resp.code = "200" /\ ~e.resp.completed /\ ~e.resp.failed
          /\ net' = [net EXCEPT ![i][Len(net[i])].headers = get_headers]
          /\ inv' = [inv EXCEPT ![i].pc = "sleep"]
    /\ UNCHANGED disk
    /\ Rest

\* time.sleep(poll_interval), then back to the top of the loop
Sleep(i) ==
    /\ inv[i].pc = "sleep"
    /\ inv' = [inv EXCEPT ![i].pc = "poll_check"]
    /\ UNCHANGED <<net, disk>>
    /\ Rest

\* return len(saved) >= 0
Success_NonNegative(saved) == Len(saved) >= 0

\* separate_file returning True whatever was saved.
Success_Always(saved) == TRUE

\* return len(saved) > 0
Success(saved) == Len(saved) > 0

\* The output file named with the suffix of the input file.
OutputFile_InputSuffix(i, stem) ==
    [base |-> paths[i].base, name |-> stem.name, ext |-> paths[i].ext]

\* output_file = output_dir / f"{base_name}_{stem_name}{extension}", with
\* base_name = Path(original_name).stem
OutputFile(i, stem) ==
    [base |-> paths[i].base, name |-> stem.name, ext |-> Extension(stem.link)]

\* open(output_file, "wb") and what was written to it
WriteFile(d, i, stem, st) ==
    {e \in d : e.path # OutputFile(i, stem)} \cup {[path |-> OutputFile(i, stem), state |-> st]}

\* download_stems leaving its loop at the first download that is not saved.
DownloadStem_StopAtFailure(i) ==
    /\ inv[i].pc = "download"
    /\ inv[i].stems # <<>>
    /\ \E r \in DownloadResponses :
         LET stem == Head(inv[i].stems)
             saved == IF r = "200" THEN Append(inv[i].saved_files, OutputFile(i, stem))
                      ELSE inv[i].saved_files
             rest == IF r = "200" THEN Tail(inv[i].stems) ELSE <<>>
         IN  /\ Issue(i, "download", <<"link", i, stem>>, Resp(r))
             /\ disk' = IF r = "200" THEN WriteFile(disk, i, stem, "whole")
                        ELSE IF r = "midstream" THEN WriteFile(disk, i, stem, "partial")
                        ELSE disk
             /\ inv' = [inv EXCEPT ![i] =
                          IF rest = <<>> THEN Leave(@, Returned(Success(saved)))
                          ELSE [@ EXCEPT !.stems = rest, !.saved_files = saved]]
    /\ Rest

\* download_stems: one pass of the loop over stems, and the return after the last
DownloadStem(i) ==
    /\ inv[i].pc = "download"
    /\ inv[i].stems # <<>>
    /\ \E r \in DownloadResponses :
         LET stem == Head(inv[i].stems)
             saved == IF r = "200" THEN Append(inv[i].saved_files, OutputFile(i, stem))
                      ELSE inv[i].saved_files
             rest == Tail(inv[i].stems)
         IN  /\ Issue(i, "download", <<"link", i, stem>>, Resp(r))
             /\ disk' = IF r = "200" THEN WriteFile(disk, i, stem, "whole")
                        ELSE IF r = "midstream" THEN WriteFile(disk, i, stem, "partial")
                        ELSE disk
             /\ inv' = [inv EXCEPT ![i] =
                          IF rest = <<>> THEN Leave(@, Returned(Success(saved)))
                          ELSE [@ EXCEPT !.stems = rest, !.saved_files = saved]]
    /\ Rest

\* ------------------------------------------------------------ the signal
\* cancel_event.set(): the owner of the signal sets it, at any moment.
SetCancel ==
    /\ ~cancel
    /\ mode = "app" => stop_btn = "normal"
    /\ mode = "twin" => turn = 1
    /\ cancel' = TRUE
    /\ UNCHANGED <<envvars, cmdvars, wfvars, batchvars, guivars>>

\* ------------------------------------------------------------ direct call
\* separate_file called with quiet=True and with quiet=False, side by side.
TwinInvoke ==
    /\ mode = "twin"
    /\ inv[1].pc = "idle"
    /\ inv' = [i \in Files |-> [inv[i] EXCEPT !.pc = "entry"]]
    /\ UNCHANGED <<envvars, cmdvars, cancel, net, disk, batchvars, guivars>>

\* separate_file called by itself.
Invoke ==
    /\ mode = "direct"
    /\ inv[1].pc = "idle"
    /\ inv' = [inv EXCEPT ![1].pc = "entry"]
    /\ UNCHANGED <<envvars, cmdvars, cancel, net, disk, batchvars, guivars>>

\* ------------------------------------------------------------ separate
\* separate exiting with status 0 whatever separate_file did.
separate_status_AlwaysZero(o) == 0

\* The status separate ends the process with, given how separate_file ended:
\* sys.exit(1) for AuthenticationError and for False, the interpreter's status
\* 1 for an exception separate does not catch, 0 when separate returns.
separate_status(o) ==
    IF o.kind = "raise" THEN 1
    ELSE IF o.val THEN 0 ELSE 1

\* separate up to its call of separate_file: sys.exit(1) without a credential
SeparateStart ==
    /\ mode = "separate"
    /\ exit = Alive
    /\ inv[1].pc = "idle"
    /\ IF check_api_key
       THEN inv' = [inv EXCEPT ![1].pc = "entry"] /\ exit' = exit
       ELSE inv' = inv /\ exit' = 1
    /\ UNCHANGED <<envvars, env, tree, argv, recursive, ai, found, cancel, net, disk,
                   batchvars, guivars>>

\* separate once separate_file is over
SeparateEnd ==
    /\ mode = "separate"
    /\ exit = Alive
    /\ inv[1].pc = "done"
    /\ exit' = separate_status(inv[1].outcome)
    /\ UNCHANGED <<envvars, env, tree, argv, recursive, ai, found, cancel, wfvars,
                   batchvars, guivars>>

\* ------------------------------------------------------------ batch.py
Running == {i \in Files : inv[i].pc \notin {"idle", "done"}}

\* The files of the batch_process call under way: the last Len(found) ones.
Batch == {i \in Files : i > nfiles - Len(found)}

\* process_file returning the path of the first file for every file.
process_file_FirstPath(i, o) ==
    [path |-> 1, success |-> o = Returned(TRUE),
     message |-> IF o.kind = "raise" THEN <<"Error", o.exc>>
                 ELSE IF o.val THEN <<"Success", "-">> ELSE <<"Failed", "-">>]

\* process_file: the tuple (path, success, message) for the workflow's outcome
process_file(i, o) ==
    IF o.kind = "raise"
    THEN [path |-> i, success |-> FALSE, message |-> <<"Error", o.exc>>]
    ELSE IF o.val
         THEN [path |-> i, success |-> TRUE, message |-> <<"Success", "-">>]
         ELSE [path |-> i, success |-> FALSE, message |-> <<"Failed", "-">>]

\* main: what it calls batch_process with for one input.
\* With several inputs: batch_process(input_file.parent, args.output, False, ...)
\* With one: batch_process(args.input[0], args.output, args.recursive, ...)
BatchCall(input, several) ==
    IF several THEN [path |-> Parent(input), deep |-> FALSE]
    ELSE [path |-> input, deep |-> recursive]

\* The status batch.py ends the process with when all its inputs are done:
\* batch_process prints its summary and returns, and so does main.
batch_status(rs) == 0

\* batch_process ending with the status of a run whose files all succeeded
\* when no file was found.
NoFilesStatus_Zero == batch_status(<<>>)

\* batch_process ending the process when no file was found: sys.exit(1)
NoFilesStatus == 1

\* main taking its next input, and batch_process up to the submission of its
\* files: check_api_key, find_audio_files, and
\* futures = {executor.submit(process_file, f, output_dir): f for f in files}.
\* A file may be gone by the time its invocation looks at it.
BatchSubmit ==
    /\ mode = "batch"
    /\ bpc = "start"
    /\ LET input == argv[ai + 1]
           several == Len(argv) > 1
           call == BatchCall(input, several)
           files == find_audio_files(call.path, call.deep)
           n == Len(files)
       IN  IF several /\ ~Path_is_file(input)
           THEN /\ ai' = ai + 1
                /\ bpc' = IF ai + 1 = Len(argv) THEN "done" ELSE "start"
                /\ exit' = IF ai + 1 = Len(argv) THEN 0 ELSE exit
                /\ UNCHANGED <<found, nfiles, fileKind, paths, inv, net, queue, results,
                               collected>>
           ELSE IF ~check_api_key
           THEN /\ exit' = 1
                /\ bpc' = "exited"
                /\ UNCHANGED <<ai, found, nfiles, fileKind, paths, inv, net, queue,
                               results, collected>>
           ELSE IF files = <<>>
           THEN /\ found' = files
                /\ exit' = NoFilesStatus
                /\ bpc' = "exited"
                /\ UNCHANGED <<ai, nfiles, fileKind, paths, inv, net, queue, results,
                               collected>>
           ELSE /\ found' = files
                /\ ai' = ai + 1
                /\ nfiles' = nfiles + n
                /\ paths' = paths \o files
                /\ \E kinds \in [1..n -> {"ok", "missing"}] : fileKind' = fileKind \o kinds
                /\ inv' = inv \o [k \in 1..n |-> Frame(FALSE, TRUE)]
                /\ net' = net \o [k \in 1..n |-> <<>>]
                /\ queue' = [k \in 1..n |-> nfiles + k]
                /\ results' = <<>>
                /\ collected' = {}
                /\ bpc' = "collect"
                /\ exit' = exit
    /\ UNCHANGED <<mode, env, tree, argv, recursive, cancel, disk, max_workers, guivars>>

\* A pool that starts a thread while max_workers are busy.
WorkerFree_OneTooMany == Cardinality(Running) <= max_workers

\* ThreadPoolExecutor(max_workers=max_workers): a pool thread is idle
WorkerFree == Cardinality(Running) < max_workers

\* A pool thread takes the oldest work item and calls process_file on it.
WorkerTake ==
    /\ mode = "batch"
    /\ queue # <<>>
    /\ WorkerFree
    /\ inv' = [inv EXCEPT ![Head(queue)].pc = "entry"]
    /\ queue' = Tail(queue)
    /\ UNCHANGED <<envvars, cmdvars, cancel, net, disk, max_workers, results, collected, bpc, guivars>>

\* for future in as_completed(futures): results.append(future.result())
Collect ==
    /\ bpc = "collect"
    /\ \E i \in Batch \ collected :
         /\ inv[i].pc = "done"
         /\ results' = Append(results, process_file(i, inv[i].outcome))
         /\ collected' = collected \cup {i}
    /\ UNCHANGED <<envvars, cmdvars, cancel, wfvars, max_workers, queue, bpc, guivars>>

\* as_completed is exhausted: the pool shuts down, the summary is printed and
\* batch_process returns to main, which goes on with its next input or ends.
BatchFinish ==
    /\ bpc = "collect"
    /\ collected = Batch
    /\ bpc' = IF ai = Len(argv) THEN "done" ELSE "start"
    /\ exit' = IF ai = Len(argv) THEN batch_status(results) ELSE exit
    /\ UNCHANGED <<envvars, env, tree, argv, recursive, ai, found, cancel, wfvars,
                   max_workers, queue, results, collected, guivars>>

\* ------------------------------------------------------------ app_gui.py
\* The parameters of separate_file, and the keywords run_batch passes to it.
SeparateFileParams ==
    {"input_file", "output_dir", "quiet", "cancel_check", "model",
     "output_format", "variant", "residual", "language"}

RunBatchKeywords == {"quiet", "cancel_check", "format", "name"}

\* The repository's second separator variant, whose separate_file takes the
\* keywords run_batch passes.
VariantParams == SeparateFileParams \cup {"format", "name"}

Event(kind, index, status) == [kind |-> kind, index |-> index, status |-> status]

Put(e) == events' = Append(events, e)

\* status = "Success" if success else "Failed"; f"Error: {e!s}" in the handler
StatusOf(o) ==
    IF o.kind = "raise" THEN <<"Error", o.exc>>
    ELSE IF o.val THEN <<"Success", "-">> ELSE <<"Failed", "-">>

\* total = len(files), and the invocation of files[i]: the files of the
\* worker under way are the last Total ones submitted.
Total == IF mode = "app" THEN Len(file_list) ELSE nfiles
Cur == nfiles - Total + gi + 1

\* Top of the for loop: the dispatch check, start_file, or the end of the loop.
GuiLoop ==
    /\ gpc = "loop"
    /\ IF gi = Total
       THEN Put(Event("finished", Total, <<"-", "-">>)) /\ gpc' = "returned"
       ELSE IF cancel
            THEN Put(Event("cancelled", gi, <<"-", "-">>)) /\ gpc' = "returned"
            ELSE Put(Event("start_file", gi, <<"-", "-">>)) /\ gpc' = "call"
    /\ UNCHANGED <<envvars, cmdvars, cancel, wfvars, batchvars, gi, bound, appvars, turn>>

\* separate_file(path, output_dir, quiet=True, cancel_check=..., format=..., name=...)
GuiCall ==
    /\ gpc = "call"
    /\ inv' = [inv EXCEPT ![Cur] =
                 IF RunBatchKeywords \subseteq bound
                 THEN [@ EXCEPT !.pc = "entry"]
                 ELSE Leave(@, Raised("TypeError"))]
    /\ gpc' = "wait"
    /\ UNCHANGED <<envvars, cmdvars, cancel, net, disk, batchvars, gi, events, bound,
                   appvars, turn>>

\* run_batch returning from its except clause, as it does after "cancelled".
Settle_StopOnError(o, c, i) ==
    IF o.kind = "raise" THEN [event |-> Event("done_file", i, StatusOf(o)), goon |-> FALSE]
    ELSE IF c THEN [event |-> Event("cancelled", i, <<"-", "-">>), goon |-> FALSE]
    ELSE [event |-> Event("done_file", i, StatusOf(o)), goon |-> TRUE]

\* What run_batch does once separate_file is over: the event it puts, and
\* whether the loop goes on.
Settle(o, c, i) ==
    IF o.kind = "raise" THEN [event |-> Event("done_file", i, StatusOf(o)), goon |-> TRUE]
    ELSE IF c THEN [event |-> Event("cancelled", i, <<"-", "-">>), goon |-> FALSE]
    ELSE [event |-> Event("done_file", i, StatusOf(o)), goon |-> TRUE]

\* A write attempt on the log file: the line, and whether open and write
\* went through (OSError otherwise).
LogWrite(line, ok) == [line |-> line, ok |-> ok]

\* f.write("\n--- Session ---\n")
SessionLine ==
    [name |-> [base |-> "--- Session ---", ext |-> <<>>], status |-> <<"-", "-">>]

\* A log line that names the file only.
FileLine_NoStatus(i, status) ==
    [name |-> [base |-> paths[i].base, ext |-> paths[i].ext], status |-> <<"-", "-">>]

\* f.write(f"{path.name}\t{status}\n")
FileLine(i, status) ==
    [name |-> [base |-> paths[i].base, ext |-> paths[i].ext], status |-> status]

\* separate_file is over: the event, and then the log line if logging is on.
GuiSettle ==
    /\ gpc = "wait"
    /\ inv[Cur].pc = "done"
    /\ LET s == Settle(inv[Cur].outcome, cancel, gi)
           logs == log_enabled /\ s.event.kind = "done_file"
       IN
         /\ Put(s.event)
         /\ gpc' = IF logs
                   THEN (IF inv[Cur].outcome.kind = "raise" THEN "errlog" ELSE "log")
                   ELSE IF s.goon THEN "loop" ELSE "returned"
         /\ gi' = IF s.goon /\ ~logs THEN gi + 1 ELSE gi
    /\ UNCHANGED <<envvars, cmdvars, cancel, wfvars, batchvars, bound, appvars, turn>>

\* The log write in the try block, after done_file was put.  An OSError is
\* caught by "except Exception", which puts done_file again and goes on to
\* its own log write.
GuiLog ==
    /\ gpc = "log"
    /\ \E ok \in BOOLEAN :
         /\ log' = Append(log, LogWrite(FileLine(Cur, events[Len(events)].status), ok))
         /\ IF ok
            THEN gpc' = "loop" /\ gi' = gi + 1 /\ UNCHANGED events
            ELSE Put(Event("done_file", gi, <<"Error", "OSError">>)) /\ gpc' = "errlog" /\ gi' = gi
    /\ UNCHANGED <<envvars, cmdvars, cancel, wfvars, batchvars, bound, log_enabled,
                   polling, consumed, start_btn, stop_btn, file_list, turn>>

\* The log write in the except block.  Its OSError leaves run_batch: the
\* thread ends.
GuiErrLog ==
    /\ gpc = "errlog"
    /\ \E ok \in BOOLEAN :
         /\ log' = Append(log, LogWrite(FileLine(Cur, events[Len(events)].status), ok))
         /\ gpc' = IF ok THEN "loop" ELSE "died"
         /\ gi' = IF ok THEN gi + 1 ELSE gi
    /\ UNCHANGED <<envvars, cmdvars, cancel, wfvars, batchvars, events, bound,
                   log_enabled, polling, consumed, start_btn, stop_btn, file_list, turn>>

\* ------------------------------------------------------------ the window
\* _start: the Start button.  The buttons are switched before the session
\* header is written; an OSError there leaves _start before the thread is
\* created.  The thread gets a copy of the file list, and each of its files
\* a new invocation.
AppStart ==
    /\ mode = "app"
    /\ start_btn = "normal"
    /\ file_list # <<>>
    /\ check_api_key
    /\ cancel' = FALSE
    /\ start_btn' = "disabled"
    /\ stop_btn' = "normal"
    /\ \E ok \in (IF log_enabled THEN BOOLEAN ELSE {TRUE}) :
         /\ log' = IF log_enabled THEN <<LogWrite(SessionLine, ok)>> ELSE log
         /\ IF ok
            THEN /\ gpc' = "loop"
                 /\ gi' = 0
                 /\ nfiles' = nfiles + Len(file_list)
                 /\ paths' = paths \o file_list
                 /\ fileKind' = fileKind \o [i \in DOMAIN file_list |-> "ok"]
                 /\ inv' = inv \o [i \in DOMAIN file_list |-> Frame(TRUE, TRUE)]
                 /\ net' = net \o [i \in DOMAIN file_list |-> <<>>]
                 /\ events' = SubSeq(events, consumed + 1, Len(events))
                 /\ consumed' = 0
            ELSE UNCHANGED <<nfiles, paths, fileKind, gpc, gi, inv, net, events, consumed>>
    /\ UNCHANGED <<mode, cmdvars, disk, batchvars, bound, log_enabled, polling,
                   file_list, turn>>

\* The events on the queue, and the position of the first terminal one (0 if
\* there is none).
Pending == SubSeq(events, consumed + 1, Len(events))

FirstTerminal(q) ==
    IF \E k \in DOMAIN q : q[k].kind \in {"cancelled", "finished"}
    THEN CHOOSE k \in DOMAIN q :
            /\ q[k].kind \in {"cancelled", "finished"}
            /\ \A j \in 1..(k - 1) : q[j].kind \notin {"cancelled", "finished"}
    ELSE 0

\* _poll_progress, when the timer fires: it takes events off the queue until
\* the queue is empty or a terminal event came, and schedules itself again
\* only if no terminal event came.
PollProgress ==
    /\ mode = "app"
    /\ polling
    /\ Pending # <<>>
    /\ LET k == FirstTerminal(Pending) IN
         IF k = 0
         THEN /\ consumed' = Len(events)
              /\ UNCHANGED <<polling, start_btn, stop_btn>>
         ELSE /\ consumed' = consumed + k
              /\ start_btn' = "normal"
              /\ stop_btn' = "disabled"
              /\ polling' = FALSE
    /\ UNCHANGED <<envvars, cmdvars, cancel, wfvars, batchvars, gpc, gi, events, bound,
                   log_enabled, log, file_list, turn>>

\* save_config, from the settings tab (_save_settings refuses an empty key):
\* os.environ["AUDIOSHAKE_API_KEY"] = api_key
SaveConfig ==
    /\ mode = "gui"
    /\ \E api_key \in TypedKeys \ {env} : env' = api_key
    /\ UNCHANGED <<envvars, exit, tree, argv, recursive, ai, found, cancel, wfvars,
                   batchvars, guivars>>

\* ------------------------------------------------------------ discovery
\* find_audio_files(input_path, recursive) called by itself
Discover ==
    /\ mode = "discover"
    /\ ai = 0
    /\ found' = find_audio_files(argv[1], recursive)
    /\ ai' = 1
    /\ UNCHANGED <<envvars, env, exit, tree, argv, recursive, cancel, wfvars, batchvars,
                   guivars>>

\* ------------------------------------------------------------ initial states
NoBatch ==
    /\ max_workers = 1
    /\ queue = <<>>
    /\ results = <<>>
    /\ collected = {}
    /\ bpc = "-"

NoApp ==
    /\ log_enabled = FALSE
    /\ log = <<>>
    /\ polling = FALSE
    /\ consumed = 0
    /\ start_btn = "-"
    /\ stop_btn = "-"
    /\ file_list = <<>>

NoGui ==
    /\ gpc = "-"
    /\ gi = 0
    /\ events = <<>>
    /\ bound = {}
    /\ NoApp

NoCommand ==
    /\ exit = Alive
    /\ tree = {}
    /\ argv = <<>>
    /\ recursive = FALSE
    /\ ai = 0
    /\ found = <<>>

InitDirect ==
    /\ mode = "direct"
    /\ env = StartKey
    /\ NoCommand
    /\ nfiles = 1
    /\ fileKind \in [1..1 -> {"ok", "missing", "badext"}]
    /\ paths = [i \in 1..1 |-> IF fileKind[i] = "badext"
                               THEN InputPath(<<"in">>, "song", <<".", "t", "x", "t">>)
                               ELSE FoundFiles[2]]
    /\ inv \in [1..1 -> {Frame(c, q) : c \in BOOLEAN, q \in BOOLEAN}]
    /\ NoBatch
    /\ NoGui

\* separate(input_file, output_dir): separate_file(input_file, output_dir)
InitSeparate ==
    /\ mode = "separate"
    /\ env \in {NoKey, StartKey}
    /\ NoCommand
    /\ nfiles = 1
    /\ fileKind \in [1..1 -> {"ok", "missing"}]
    /\ paths = [i \in 1..1 |-> FoundFiles[2]]
    /\ inv = [i \in 1..1 |-> Frame(FALSE, FALSE)]
    /\ NoBatch
    /\ NoGui

\* --workers: default=2
DefaultWorkers == 2

\* The trees the batch command is run on
BatchTrees ==
    { {AllFiles[2], AllFiles[3]}, {AllFiles[3], AllFiles[5]},
      {AllFiles[5], AllFiles[6]}, {AllFiles[4], AllFiles[5], AllFiles[6]} }

\* The invocations main will make for its inputs from the k-th on
RECURSIVE Planned(_)
Planned(k) ==
    IF k > Len(argv) THEN 0
    ELSE IF Len(argv) > 1 /\ ~Path_is_file(argv[k]) THEN Planned(k + 1)
    ELSE LET call == BatchCall(argv[k], Len(argv) > 1)
         IN  Len(find_audio_files(call.path, call.deep)) + Planned(k + 1)

InitBatch ==
    /\ mode = "batch"
    /\ env \in {NoKey, StartKey}
    /\ exit = Alive
    /\ tree \in BatchTrees
    /\ \/ argv = <<InDir>> /\ recursive \in BOOLEAN
       \/ argv = <<InDir, SubDir>> /\ recursive = FALSE
       \/ /\ argv \in {<<a, b>> : a, b \in tree} /\ argv[1] # argv[2]
          /\ recursive = FALSE
    /\ Planned(1) <= MaxFiles
    /\ ai = 0
    /\ found = <<>>
    /\ nfiles = 0
    /\ fileKind = <<>>
    /\ paths = <<>>
    /\ inv = <<>>
    /\ max_workers \in IF Len(argv) > 1 THEN {DefaultWorkers} ELSE 1..MaxFiles
    /\ queue = <<>>
    /\ results = <<>>
    /\ collected = {}
    /\ bpc = "start"
    /\ NoGui

InitGui ==
    /\ mode = "gui"
    /\ env = StartKey
    /\ NoCommand
    /\ nfiles \in 1..MaxFiles
    /\ fileKind \in [1..nfiles -> {"ok", "missing"}]
    /\ \E f \in SortedFiles(nfiles) : paths = [i \in 1..nfiles |-> FoundFiles[f[i]]]
    /\ inv = [i \in 1..nfiles |-> Frame(TRUE, TRUE)]
    /\ NoBatch
    /\ gpc = "loop"
    /\ gi = 0
    /\ events = <<>>
    /\ bound \in {SeparateFileParams, VariantParams}
    /\ log_enabled \in (IF nfiles < MaxFiles THEN BOOLEAN ELSE {FALSE})
    /\ log = <<>>
    /\ polling = FALSE
    /\ consumed = 0
    /\ start_btn = "-"
    /\ stop_btn = "-"
    /\ file_list = <<>>

\* The application after __init__ (which called _poll_progress once, on an
\* empty queue) and with files in its list: Start is enabled, Stop is not.
\* Its worker calls the separate_file of separator.py.
InitApp ==
    /\ mode = "app"
    /\ env = StartKey
    /\ NoCommand
    /\ nfiles = 0
    /\ fileKind = <<>>
    /\ paths = <<>>
    /\ inv = <<>>
    /\ \E n \in 1..(MaxFiles \div 2) : \E f \in SortedFiles(n) :
          file_list = [i \in 1..n |-> FoundFiles[f[i]]]
    /\ NoBatch
    /\ gpc = "-"
    /\ gi = 0
    /\ events = <<>>
    /\ bound = SeparateFileParams
    /\ log_enabled \in BOOLEAN
    /\ log = <<>>
    /\ polling = TRUE
    /\ consumed = 0
    /\ start_btn = "normal"
    /\ stop_btn = "disabled"

\* separate_file called twice on the same input, with the same cancel_check
\* or with none: once with quiet=True, once with quiet=False.
InitTwin ==
    /\ mode = "twin"
    /\ env = StartKey
    /\ NoCommand
    /\ nfiles = 2
    /\ \E k \in {"ok", "missing", "badext"} : fileKind = [i \in 1..2 |-> k]
    /\ paths = [i \in 1..2 |-> IF fileKind[i] = "badext"
                               THEN InputPath(<<"in">>, "song", <<".", "t", "x", "t">>)
                               ELSE FoundFiles[2]]
    /\ \E c \in BOOLEAN : inv = <<Frame(c, TRUE), Frame(c, FALSE)>>
    /\ NoBatch
    /\ NoGui

\* find_audio_files called by itself, on a directory of any tree or on a
\* single file
InitDiscover ==
    /\ mode = "discover"
    /\ env = NoKey
    /\ exit = Alive
    /\ \/ /\ tree \in SUBSET {AllFiles[k] : k \in DOMAIN AllFiles}
          /\ argv \in {<<InDir>>, <<SubDir>>}
       \/ \E x \in SuffixSamples :
             /\ tree = {InputPath(<<"in">>, "track", x)}
             /\ argv = <<InputPath(<<"in">>, "track", x)>>
    /\ recursive \in BOOLEAN
    /\ ai = 0
    /\ found = <<>>
    /\ nfiles = 0
    /\ fileKind = <<>>
    /\ paths = <<>>
    /\ inv = <<>>
    /\ NoBatch
    /\ NoGui

Init ==
    /\ InitDirect \/ InitSeparate \/ InitBatch \/ InitGui \/ InitApp \/ InitTwin
       \/ InitDiscover
    /\ turn = IF mode = "twin" THEN 1 ELSE 0
    /\ cancel = FALSE
    /\ net = [i \in 1..nfiles |-> <<>>]
    /\ disk = {}

Next ==
    \/ SetCancel
    \/ Invoke
    \/ SeparateStart
    \/ SeparateEnd
    \/ \E i \in Files : Enter(i)
    \/ \E i \in Files : Upload(i)
    \/ \E i \in Files : CreateTask(i)
    \/ \E i \in Files : PollCheck(i)
    \/ \E i \in Files : PollFetch(i)
    \/ \E i \in Files : Sleep(i)
    \/ \E i \in Files : DownloadStem(i)
    \/ BatchSubmit
    \/ WorkerTake
    \/ Collect
    \/ BatchFinish
    \/ GuiLoop
    \/ GuiCall
    \/ GuiSettle
    \/ GuiLog
    \/ GuiErrLog
    \/ AppStart
    \/ PollProgress
    \/ TwinInvoke
    \/ SaveConfig
    \/ Discover

Spec == Init /\ [][Next]_vars

\* ================================================================ properties
Entry(i, k) == net[i][k]
UploadOk(e) == e.kind = "upload" /\ e.resp.code = "200"
CreateOk(e) == e.kind = "create" /\ e.resp.code \in {"200", "201"}
Downloads(n) == {k \in DOMAIN n : n[k].kind = "download"}
KeepsSignal(i) == inv[i].cancel_check

\* C1: in separate_file a failed step prevents every later step.  A failed
\* upload (no asset id, or an exception) or a failed create-task is the last
\* request of its invocation, and a create-task / status / download request
\* is only ever issued after the upload succeeded, a status / download
\* request only after the create-task succeeded.
C1_FailedStepIsLast ==
    \A i \in Files : \A k \in DOMAIN net[i] :
        LET e == Entry(i, k) IN
        /\ (e.kind = "upload" /\ ~UploadOk(e)) => k = Len(net[i])
        /\ (e.kind = "create" /\ ~CreateOk(e)) => k = Len(net[i])
        /\ e.kind \in {"create", "status", "download"}
             => \E j \in 1..(k - 1) : UploadOk(Entry(i, j))
        /\ e.kind \in {"status", "download"}
             => \E j \in 1..(k - 1) : CreateOk(Entry(i, j))

\* A batch is over in which one file's upload was answered 401 and the other
\* file's create-task was refused: each invocation stopped at its failed call.
C1_Witness ==
    /\ mode = "batch" /\ nfiles = 2 /\ bpc = "done"
    /\ Len(net[1]) = 1 /\ net[1][1].kind = "upload" /\ net[1][1].resp.code = "401"
    /\ Len(net[2]) = 2 /\ net[2][2].kind = "create" /\ net[2][2].resp.code = "status"

\* C2: a download request is issued only after a status poll of the
\* invocation's own task returned 200 with a snapshot whose targets list is
\* not empty and all "completed", and that poll is the last one: nothing but
\* downloads follows it.  While downloading, the frame holds such a snapshot.
C2_DownloadOnlyWhenCompleted ==
    \A i \in Files :
        /\ \A k \in Downloads(net[i]) :
             \E j \in 1..(k - 1) :
                /\ Entry(i, j).kind = "status"
                /\ Entry(i, j).arg = TaskIdOf(i)
                /\ Entry(i, j).resp.code = "200"
                /\ Entry(i, j).resp.completed
                /\ \A m \in (j + 1)..k : Entry(i, m).kind = "download"
        /\ inv[i].pc = "download" =>
             /\ ~inv[i].task_data.none
             /\ ~inv[i].task_data.missing
             /\ inv[i].task_data.targets # <<>>
             /\ \A t \in DOMAIN inv[i].task_data.targets :
                    inv[i].task_data.targets[t].status = "completed"

\* A direct invocation that was first answered "not done yet", then a
\* completed snapshot of two targets, and has issued its second download.
C2_Witness ==
    /\ mode = "direct"
    /\ Len(net[1]) = 6
    /\ net[1][3].kind = "status" /\ ~net[1][3].resp.completed
    /\ net[1][4].kind = "status" /\ net[1][4].resp.completed
    /\ net[1][6].kind = "download"

\* C3: when the cancellation signal is set at the check that precedes a status
\* fetch (the first one, or the one after a sleep), the invocation that was
\* given the signal ends there with False and without a request; and an
\* invocation that ended issues no request any more.
C3_CancelBeforePoll ==
    [][\A i \in Files :
         /\ (inv[i].pc = "poll_check" /\ KeepsSignal(i) /\ cancel /\ inv'[i] # inv[i])
              => /\ inv'[i].pc = "done"
                 /\ inv'[i].outcome = Returned(FALSE)
                 /\ net'[i] = net[i]
         /\ inv[i].pc = "done" => (net'[i] = net[i] /\ inv'[i] = inv[i])]_vars

\* An invocation ended by the signal after a sleep: its last request is a
\* status fetch that was answered "not done yet".
C3_Witness ==
    \E i \in Files :
        /\ KeepsSignal(i) /\ cancel
        /\ inv[i].pc = "done" /\ inv[i].outcome = Returned(FALSE)
        /\ Len(net[i]) = 3
        /\ net[i][3].kind = "status" /\ net[i][3].resp.code = "200"
        /\ ~net[i][3].resp.completed /\ ~net[i][3].resp.failed

\* C4 (as claimed): once the signal is set, an invocation that was given the
\* signal starts no network call.
C4_NoCallOnceSet ==
    [][\A i \in Files : (cancel /\ KeepsSignal(i)) => net'[i] = net[i]]_vars

\* C5: once polling returned the completed snapshot the download step is
\* carried out whole, whether or not the signal is set: every step of an
\* invocation that is downloading issues the download of its next stem, the
\* invocation ends only with the last stem, and then returns True iff one of
\* its downloads was saved; no step removes or truncates a saved file.
C5_DownloadStepCompletes ==
    [][/\ \A i \in Files :
            (inv[i].pc = "download" /\ inv'[i] # inv[i]) =>
                /\ inv[i].stems # <<>>
                /\ Len(net'[i]) = Len(net[i]) + 1
                /\ net'[i][Len(net'[i])].kind = "download"
                /\ net'[i][Len(net'[i])].arg = <<"link", i, Head(inv[i].stems)>>
                /\ inv'[i].pc = (IF Len(inv[i].stems) = 1 THEN "done" ELSE "download")
                /\ inv'[i].pc = "done" =>
                     inv'[i].outcome =
                        Returned(\E k \in Downloads(net'[i]) : net'[i][k].resp.code = "200")
       /\ \A e \in disk : e.state = "whole" => e \in disk']_vars

\* The signal was set too late for the last check to see it: the invocation
\* that was given the signal has ended with True, after two downloads of
\* which one was saved.
C5_Witness ==
    \E i \in Files :
        /\ KeepsSignal(i) /\ cancel
        /\ inv[i].pc = "done" /\ inv[i].outcome = Returned(TRUE)
        /\ Cardinality(Downloads(net[i])) = 2
        /\ Cardinality({e \in disk : e.path.base = paths[i].base /\ e.state = "whole"}) = 1

\* The invocation of file i ended because its check before a status fetch saw
\* the signal: it returned False right after the create-task succeeded or
\* right after a status answer that said "not done yet".
EndedBySignal(i) ==
    /\ inv[i].pc = "done"
    /\ inv[i].outcome = Returned(FALSE)
    /\ net[i] # <<>>
    /\ LET e == Entry(i, Len(net[i])) IN
         \/ CreateOk(e)
         \/ e.kind = "status" /\ e.resp.code = "200" /\ ~e.resp.completed /\ ~e.resp.failed

\* run_batch is past file i (files are 1..nfiles, their indices 0..nfiles-1).
Settled(i) == gi >= i \/ (gpc = "returned" /\ gi = i - 1 /\ inv[i].pc = "done")

HasEvent(e) == \E k \in DOMAIN events : events[k] = e

C7_OneEntryPerInput ==
    mode = "batch" =>
        /\ \A i \in Files : Cardinality({k \in DOMAIN results : results[k].path = i}) <= 1
        /\ \A k \in DOMAIN results : results[k].path \in Batch
        /\ bpc \in {"start", "done"} =>
             /\ Len(results) = Cardinality(Batch)
             /\ \A i \in Batch : \E k \in DOMAIN results : results[k].path = i

\* Two files on two workers, collected out of submission order.
C7_Witness ==
    /\ mode = "batch" /\ bpc = "done"
    /\ nfiles = 2 /\ max_workers = 2
    /\ results[1].path = 2 /\ results[2].path = 1

FairSpec == Spec /\ WF_vars(WorkerTake)

\* Every thread runs: each step of an invocation that can be taken is taken,
\* each network call and each sleep returns, and the drivers go on.  Nobody
\* has to set the signal.
LiveSpec ==
    /\ Spec
    /\ WF_vars(Invoke) /\ WF_vars(SeparateStart) /\ WF_vars(SeparateEnd)
    /\ WF_vars(Discover)
    /\ WF_vars(BatchSubmit) /\ WF_vars(WorkerTake)
    /\ WF_vars(Collect) /\ WF_vars(BatchFinish)
    /\ WF_vars(GuiLoop) /\ WF_vars(GuiCall) /\ WF_vars(GuiSettle)
    /\ WF_vars(GuiLog) /\ WF_vars(GuiErrLog) /\ WF_vars(PollProgress)
    /\ WF_vars(TwinInvoke)
    /\ \A i \in 1..MaxFiles :
          /\ WF_vars(i \in Files /\ Enter(i))
          /\ WF_vars(i \in Files /\ Upload(i))
          /\ WF_vars(i \in Files /\ CreateTask(i))
          /\ WF_vars(i \in Files /\ PollCheck(i))
          /\ WF_vars(i \in Files /\ PollFetch(i))
          /\ WF_vars(i \in Files /\ Sleep(i))
          /\ WF_vars(i \in Files /\ DownloadStem(i))

\* C9: in batch_process at most max_workers invocations are between their
\* start and their end at any moment and the others wait in the queue, not
\* started; and the entry at the head of the queue, once fewer than
\* max_workers invocations run, is started.
C9_AtMostWRunning ==
    /\ [](mode = "batch" =>
            /\ Cardinality(Running) <= max_workers
            /\ \A k \in DOMAIN queue : inv[queue[k]].pc = "idle")
    /\ \A i \in 1..MaxFiles :
          (mode = "batch" /\ queue # <<>> /\ Head(queue) = i
             /\ Cardinality(Running) < max_workers)
          ~> (i \in Files /\ inv[i].pc # "idle")

\* One worker, two files: the second file waited while the first ran, and is
\* running now that the first has ended.
C9_Witness ==
    /\ mode = "batch" /\ max_workers = 1 /\ nfiles = 2
    /\ inv[1].pc = "done"
    /\ Running = {2}
    /\ queue = <<>>

\* C10 (as claimed): once the signal is set no driver dispatches a file that
\* had not started: batch_process starts no waiting entry, run_batch puts no
\* start_file.
C10_NoDispatchOnceSet ==
    [][cancel =>
         /\ mode = "batch" => \A i \in Files : inv[i].pc = "idle" => inv'[i].pc = "idle"
         /\ mode = "gui" =>
              \/ events' = events
              \/ events'[Len(events')].kind # "start_file"]_vars

\* The output files invocation i opened for writing.
Written(i) ==
    {OutputFile(i, net[i][k].arg[3]) :
        k \in {d \in Downloads(net[i]) : net[i][d].resp.code \in {"200", "midstream"}}}

\* C11 (as claimed): the invocations of two distinct input paths never write
\* the same output file.
C11_DisjointOutputs ==
    \A i, j \in Files :
        (i # j /\ paths[i] # paths[j]) => Written(i) \cap Written(j) = {}

\* C12 (as claimed): a request answered 401, whatever the endpoint, is the
\* last request of its invocation, which ends by raising AuthenticationError.
C12_Every401Raises ==
    \A i \in Files : \A k \in DOMAIN net[i] :
        Entry(i, k).resp.code = "401" =>
            /\ k = Len(net[i])
            /\ inv[i].pc = "done"
            /\ inv[i].outcome = Raised("AuthenticationError")

\* The call run_batch makes is one its callee accepts (any other caller's is).
Accepted == mode = "gui" => RunBatchKeywords \subseteq bound

\* C13 (as claimed): separate_file never ends by raising; whatever went
\* wrong, it returns.
C13_NoExceptionEscapes ==
    \A i \in Files :
        (Accepted /\ inv[i].pc = "done") => inv[i].outcome.kind = "return"

\* C14 (as claimed): a status answer with a failed target is the last request
\* of its invocation, which returns False and has surfaced the error text of
\* the first failed target, or a generic text when that target has none.
C14_FailedTargetReason ==
    \A i \in Files : \A k \in DOMAIN net[i] :
        (Entry(i, k).kind = "status" /\ Entry(i, k).resp.failed) =>
            /\ k = Len(net[i])
            /\ inv[i].pc = "done"
            /\ inv[i].outcome = Returned(FALSE)
            /\ inv[i].printed = IF Entry(i, k).resp.error = NoError
                                 THEN "Unknown error"
                                 ELSE Entry(i, k).resp.error

\* C15: how wait_for_completion classifies the snapshot of a 200 status
\* answer.  Any failed target: failed, even with completed targets beside it
\* (the invocation ends there with False).  All targets completed: done
\* (polling is over; only downloads may follow).  Anything else, and an empty
\* or missing targets list in particular: not yet done (the invocation sleeps
\* and goes back to the check before the next fetch, where only the signal
\* can end it).
C15_SnapshotClassification ==
    \A i \in Files : \A k \in DOMAIN net[i] :
        LET e == Entry(i, k)
            last == k = Len(net[i])
        IN  (e.kind = "status" /\ e.resp.code = "200") =>
              /\ e.resp.failed =>
                    last /\ inv[i].pc = "done" /\ inv[i].outcome = Returned(FALSE)
              /\ e.resp.completed =>
                    /\ ~e.resp.failed
                    /\ e.resp.shape = "some"
                    /\ \A m \in (k + 1)..Len(net[i]) : Entry(i, m).kind = "download"
                    /\ inv[i].pc \in {"download", "done"}
              /\ (~e.resp.failed /\ ~e.resp.completed) =>
                    /\ ~last => Entry(i, k + 1).kind = "status"
                    /\ last =>
                         \/ inv[i].pc \in {"sleep", "poll_check", "poll_fetch"}
                         \/ /\ inv[i].pc = "done" /\ inv[i].outcome = Returned(FALSE)
                            /\ KeepsSignal(i) /\ cancel
              /\ e.resp.shape \in {"missing", "empty"} => (~e.resp.failed /\ ~e.resp.completed)

\* An invocation was answered an empty targets list, polled again, and was
\* then answered a snapshot with a failed target beside a completed one.
C15_Witness ==
    /\ mode = "direct"
    /\ Len(net[1]) = 4
    /\ net[1][3].kind = "status" /\ net[1][3].resp.shape = "empty"
    /\ net[1][4].kind = "status" /\ net[1][4].resp.failed /\ net[1][4].resp.some_completed
    /\ inv[1].pc = "done"

\* C16: an invocation on a path that does not exist, or whose extension is
\* not in VALID_EXTENSIONS, issues no request at all and returns False from
\* its entry.
C16_InvalidInputNoNetwork ==
    \A i \in Files :
        (fileKind[i] = "missing" \/ Lower(paths[i].ext) \notin VALID_EXTENSIONS) =>
            /\ net[i] = <<>>
            /\ inv[i].pc \in {"idle", "entry", "done"}
            /\ (inv[i].pc = "done" /\ Accepted) => inv[i].outcome = Returned(FALSE)

\* A direct invocation on an existing file with an unsupported extension has
\* returned False.
C16_Witness ==
    /\ mode = "direct"
    /\ fileKind[1] # "missing" /\ Lower(paths[1].ext) \notin VALID_EXTENSIONS
    /\ inv[1].pc = "done" /\ inv[1].outcome = Returned(FALSE)
    /\ net[1] = <<>>

\* C17: the requests of one invocation come in the order upload, create-task,
\* status polls, downloads, each step after the previous one returned, and
\* carry the identifiers forward: the create-task names the asset id the
\* upload returned, every status poll the task id the create-task returned,
\* neither of them empty, and after the first download nothing but downloads
\* is issued.
C17_SequentialWithIds ==
    \A i \in Files :
        /\ \A k \in DOMAIN net[i] :
              LET e == Entry(i, k) IN
              /\ (e.kind = "upload") <=> (k = 1)
              /\ e.kind = "create" =>
                    /\ k = 2 /\ UploadOk(Entry(i, 1))
                    /\ e.arg = AssetIdOf(i) /\ e.arg # NoneId
              /\ e.kind = "status" =>
                    /\ k >= 3 /\ CreateOk(Entry(i, 2))
                    /\ e.arg = TaskIdOf(i) /\ e.arg # NoneId
                    /\ \A m \in 3..k : Entry(i, m).kind = "status"
              /\ e.kind = "download" =>
                    /\ k >= 4 /\ Entry(i, 3).kind = "status"
                    /\ \A m \in k..Len(net[i]) : Entry(i, m).kind = "download"
        /\ inv[i].pc = "create" => (Len(net[i]) = 1 /\ inv[i].asset_id = AssetIdOf(i))
        /\ inv[i].pc \in {"poll_check", "poll_fetch", "sleep"} =>
              (Len(net[i]) >= 2 /\ inv[i].task_id = TaskIdOf(i))

\* An invocation that went through all four steps, polling twice.
C17_Witness ==
    \E i \in Files :
        /\ inv[i].pc = "done" /\ inv[i].outcome = Returned(TRUE)
        /\ Len(net[i]) = 5
        /\ Entry(i, 2).kind = "create" /\ Entry(i, 2).arg = AssetIdOf(i)
        /\ Entry(i, 3).kind = "status" /\ Entry(i, 4).kind = "status"
        /\ Entry(i, 4).arg = TaskIdOf(i)
        /\ Entry(i, 5).kind = "download"

\* C18 (as claimed): with every network call and every sleep returning, an
\* invocation that was entered ends, unless the signal is set.
C18_EveryInvocationEnds ==
    \A i \in 1..MaxFiles :
        (i \in Files /\ inv[i].pc = "entry")
        ~> (i \in Files /\ (inv[i].pc = "done" \/ cancel))

\* C19 (as claimed): no output path ever holds a partially written file.
C19_NoPartialFile ==
    \A e \in disk : e.state # "partial"

\* The requests of invocation i that were answered an all-completed snapshot.
CompletedPolls(i) ==
    {k \in DOMAIN net[i] : Entry(i, k).kind = "status" /\ Entry(i, k).resp.completed}

SavedDownloads(i) == {k \in Downloads(net[i]) : Entry(i, k).resp.code = "200"}

\* C20: an invocation that polled the all-completed snapshot ends by
\* returning, never by raising, and returns True iff one of its downloads
\* was saved: False when the snapshot had no output with a link, and False
\* when every download failed.
C20_TrueIffSaved ==
    \A i \in Files :
        (inv[i].pc = "done" /\ CompletedPolls(i) # {}) =>
            inv[i].outcome = Returned(SavedDownloads(i) # {})

\* The all-completed snapshot had two outputs and both downloads failed.
C20_Witness ==
    \E i \in Files :
        /\ inv[i].pc = "done" /\ inv[i].outcome = Returned(FALSE)
        /\ CompletedPolls(i) # {}
        /\ Cardinality(Downloads(net[i])) = 2
        /\ SavedDownloads(i) = {}

\* The request was not answered with success: 401, another unsuccessful
\* status, a transport error, or a successful status without the id.
FailedRequest(e) == e.resp.code \notin {"200", "201"}

OfKind(i, kind) == {k \in DOMAIN net[i] : Entry(i, k).kind = kind}

\* C21 (as claimed): a request that failed is the last request of its
\* invocation, whatever its kind.
C21_NothingAfterFailure ==
    \A i \in Files : \A k \in DOMAIN net[i] :
        FailedRequest(Entry(i, k)) => k = Len(net[i])

\* C21 (amended): no request is retried.  An invocation issues at most one
\* upload and at most one create-task; a failed upload, create-task or status
\* request is its last request; no output link is requested twice, and a
\* failed download is followed only by the downloads of the other outputs.
C21_NoRetry ==
    \A i \in Files :
        /\ Cardinality(OfKind(i, "upload")) <= 1
        /\ Cardinality(OfKind(i, "create")) <= 1
        /\ \A k \in DOMAIN net[i] :
              LET e == Entry(i, k) IN
              /\ (FailedRequest(e) /\ e.kind # "download") => k = Len(net[i])
              /\ e.kind = "download" =>
                    \A m \in (k + 1)..Len(net[i]) :
                        Entry(i, m).kind = "download" /\ Entry(i, m).arg # e.arg

\* The first download failed on a transport error; the download of the
\* second output was issued after it and saved.
C21_Witness ==
    \E i \in Files :
        /\ Len(net[i]) = 5
        /\ Entry(i, 4).kind = "download" /\ Entry(i, 4).resp.code = "transport"
        /\ Entry(i, 5).kind = "download" /\ Entry(i, 5).resp.code = "200"
        /\ inv[i].pc = "done"

\* The extension as described: the suffix of the link's path part, the query
\* string removed first; ".wav" when the path part has none.
PathPartExtension(link) ==
    LET e == PathSuffix(BeforeQuery(link))
    IN  IF e = <<>> THEN DefaultExtension ELSE e

\* C28 (as claimed): every download answered 200 for an output named n with
\* link L of input I leaves the file {stem(I)}_{n}{ext} on disk, ext being
\* the suffix of the path part of L without its query string, ".wav" if the
\* path part has no suffix.
C28_NameFromLinkPath ==
    \A i \in Files : \A k \in SavedDownloads(i) :
        \E e \in disk :
            e.path = [base |-> paths[i].base, name |-> Entry(i, k).arg[3].name,
                      ext |-> PathPartExtension(Entry(i, k).arg[3].link)]

\* The environment holds a credential.
CredentialSet == env # NoKey

\* The answers of the example scenario, call by call: an asset id, a task id,
\* a snapshot with a target in progress, a snapshot of completed targets whose
\* one output with a link is "vocals" at .../vocals.wav, and the file.
ScenarioAnswer(k, resp) ==
    CASE k = 1 -> resp = Resp("200")
      [] k = 2 -> resp \in {Resp("200"), Resp("201")}
      [] k = 3 -> resp.code = "200" /\ resp.shape = "some" /\ ~resp.completed /\ ~resp.failed
      [] k = 4 -> /\ resp.code = "200" /\ resp.completed
                  /\ Len(resp.stems) = 1
                  /\ resp.stems[1].name = "vocals" /\ resp.stems[1].link = LinkPlain
      [] k = 5 -> resp = Resp("200")
      [] OTHER -> FALSE

ScenarioKinds == <<"upload", "create", "status", "status", "download">>

\* Invocation i has been answered as in the scenario so far, the credential
\* is set, and no signal the invocation looks at has been set.
InScenario(i) ==
    /\ CredentialSet
    /\ ~(inv[i].cancel_check /\ cancel)
    /\ net[i] # <<>>
    /\ \A k \in DOMAIN net[i] : ScenarioAnswer(k, Entry(i, k).resp)

\* C22: an invocation answered as in the example scenario issues exactly the
\* requests upload, create, poll, poll, download, in that order, and then
\* returns True; the one file it has saved is {input_stem}_vocals.wav.
C22_EndToEnd ==
    \A i \in Files :
        InScenario(i) =>
            /\ \A k \in DOMAIN net[i] : Entry(i, k).kind = ScenarioKinds[k]
            /\ inv[i].pc = "done" <=> Len(net[i]) = 5
            /\ inv[i].pc = "done" =>
                  /\ inv[i].outcome = Returned(TRUE)
                  /\ Written(i) = {[base |-> paths[i].base, name |-> "vocals",
                                    ext |-> <<".", "wav">>]}
                  /\ [path |-> [base |-> paths[i].base, name |-> "vocals",
                                ext |-> <<".", "wav">>],
                      state |-> "whole"] \in disk

\* The scenario has run to its end.
C22_Witness ==
    \E i \in Files :
        /\ InScenario(i)
        /\ Len(net[i]) = 5
        /\ inv[i].outcome = Returned(TRUE)

\* The failed entries of results, as the summary lists them: name and message
Failures(rs) == {k \in DOMAIN rs : ~rs[k].success}

\* C23 (as claimed): a run of the batch command in which a file failed ends
\* with a non-zero exit status.
C23_FailedBatchExitsNonZero ==
    (mode = "batch" /\ bpc = "done" /\ Failures(results) # {}) => exit \notin {Alive, 0}

\* C24: the single-file command.  Without a credential it exits with status 1
\* and no request is ever made; with one, it exits only once separate_file is
\* over, with 0 if separate_file returned True and with 1 if it returned False
\* or raised (AuthenticationError included).
C24_SeparateExitStatus ==
    mode = "separate" =>
        /\ ~CredentialSet => net[1] = <<>> /\ inv[1].pc = "idle" /\ exit \in {Alive, 1}
        /\ (CredentialSet /\ exit # Alive) =>
              /\ inv[1].pc = "done"
              /\ inv[1].outcome = Returned(TRUE) => exit = 0
              /\ inv[1].outcome = Returned(FALSE) => exit # 0
              /\ inv[1].outcome.kind = "raise" => exit # 0
        /\ exit = 0 => inv[1].outcome = Returned(TRUE)

\* separate has exited with status 1 after a 401 made separate_file raise
\* AuthenticationError.
C24_Witness ==
    /\ mode = "separate"
    /\ exit = 1
    /\ inv[1].outcome = Raised("AuthenticationError")
    /\ net[1] # <<>>

\* batch_process has ended the process itself (sys.exit), as opposed to main
\* having come to its end.
BatchAborted == mode = "batch" /\ bpc = "exited"

C26_EachGivenFileOnce ==
    (mode = "batch" /\ Len(argv) > 1) =>
        /\ \A i \in Files : paths[i] \in {argv[k] : k \in DOMAIN argv}
        /\ \A i, j \in Files : i # j => paths[i] # paths[j]
        /\ bpc = "done" =>
              \A k \in DOMAIN argv : Path_is_file(argv[k]) => \E i \in Files : paths[i] = argv[k]

\* The request invocation i made in this step, if it made one: the last entry
\* of its list, which is new or (a repeated poll) carries that poll's headers.
Sent(i) == net'[i][Len(net'[i])]

SameIgnoringCase(a, b) ==
    /\ Len(a) = Len(b)
    /\ \A k \in DOMAIN a : a[k] = b[k] \/ <<a[k], b[k]>> \in
                               {<<Letters[n][1], Letters[n][2]>> : n \in DOMAIN Letters}
                               \cup {<<Letters[n][2], Letters[n][1]>> : n \in DOMAIN Letters}

\* The suffix is a supported one, in any casing.
Supported(x) == \E v \in VALID_EXTENSIONS : SameIgnoringCase(x, v)

\* find_audio_files has been called on a directory / on a single file
DiscoveredDirectory == mode = "discover" /\ ai = 1 /\ ~Path_is_file(argv[1])
DiscoveredFile == mode = "discover" /\ ai = 1 /\ Path_is_file(argv[1])

\* C29 (as claimed): find_audio_files on a directory returns, each once and
\* in sorted order, exactly the files with a supported suffix in any casing
\* that are directly in the directory, or anywhere under it when recursive.
C29_DiscoveryAnyCasing ==
    DiscoveredDirectory =>
        /\ {found[k] : k \in DOMAIN found} =
              {f \in tree : /\ Supported(f.ext)
                            /\ IF recursive THEN IsPrefix(Parts(argv[1]), f.dir)
                               ELSE f.dir = Parts(argv[1])}
        /\ \A a, b \in DOMAIN found : a < b => Rank(found[a]) < Rank(found[b])

\* C30: find_audio_files on a single file, which is is_valid_audio_file on
\* its name, returns the file when its suffix is a supported one in any
\* casing, and nothing when the suffix is another one or the name has none.
C30_ValidInAnyCasing ==
    DiscoveredFile =>
        /\ Supported(argv[1].ext) => found = <<argv[1]>>
        /\ ~Supported(argv[1].ext) => found = <<>>

\* track.Flac has been accepted.
C30_Witness ==
    /\ DiscoveredFile
    /\ argv[1].ext = <<".", "F", "l", "a", "c">>
    /\ found = <<argv[1]>>

\* C33 (as claimed): run_batch's call of separate_file is one separate_file
\* accepts, so that every file goes through the workflow, and the status of a
\* file's done_file event is "Success" exactly when its invocation returned
\* True (upload, create-task, polling and download went through and at least
\* one output was saved) and "Failed" exactly when it returned False.
C33_GuiFunnelsIntoWorkflow ==
    mode = "gui" =>
        \A i \in Files :
            /\ inv[i].pc = "done" => inv[i].outcome # Raised("TypeError")
            /\ (Settled(i) /\ ~HasEvent(Event("cancelled", i - 1, <<"-", "-">>))) =>
                 /\ HasEvent(Event("done_file", i - 1, <<"Success", "-">>))
                      <=> inv[i].outcome = Returned(TRUE)
                 /\ HasEvent(Event("done_file", i - 1, <<"Failed", "-">>))
                      <=> inv[i].outcome = Returned(FALSE)

\* The last request of invocation i is a status fetch answered "not done yet".
LastNotDoneYet(i) ==
    /\ net[i] # <<>>
    /\ LET e == Entry(i, Len(net[i])) IN
         e.kind = "status" /\ e.resp.code = "200" /\ ~e.resp.completed /\ ~e.resp.failed

\* C35: the polling cadence of wait_for_completion.  The first status fetch
\* follows the create-task with no sleep in between (only the check of the
\* signal); a fetch answered "not done yet" is followed by exactly one sleep,
\* the sleep by the check, the check by the next fetch or by the return; and
\* polling stops at the first fetch answered 401 (AuthenticationError), and
\* at the first other non-200 answer or transport error, after which the
\* invocation returns False with no download.
C35_PollingCadence ==
    /\ [][\A i \in Files :
            LET pc == inv[i].pc  pc2 == inv'[i].pc IN
            /\ (pc2 = "poll_check" /\ pc # pc2) => pc \in {"create", "sleep"}
            /\ (pc2 = "poll_fetch" /\ pc # pc2) => pc = "poll_check"
            /\ (pc2 = "sleep" /\ pc # pc2) => pc = "poll_fetch" /\ LastNotDoneYet(i)'
            /\ (pc = "sleep" /\ pc # pc2) => pc2 = "poll_check" /\ net'[i] = net[i]
            /\ (pc = "poll_check" /\ pc # pc2) => net'[i] = net[i]
            /\ (pc = "poll_fetch" /\ pc # pc2) =>
                 /\ LastNotDoneYet(i)' <=> pc2 = "sleep"
                 /\ Entry(i, Len(net[i]))'.kind = "status"
            /\ (pc = "create" /\ pc2 = "poll_check") => CreateOk(Entry(i, Len(net[i]))')
         ]_vars
    /\ [](\A i \in Files : \A k \in DOMAIN net[i] :
            LET e == Entry(i, k) IN
            (e.kind = "status" /\ e.resp.code # "200") =>
                /\ k = Len(net[i])
                /\ inv[i].pc = "done"
                /\ inv[i].outcome = IF e.resp.code = "401"
                                    THEN Raised("AuthenticationError")
                                    ELSE Returned(FALSE))

\* An invocation fetched the status twice, with one sleep after the first
\* answer ("not done yet"), and the second fetch failed in transport.
C35_Witness ==
    \E i \in Files :
        /\ Cardinality(OfKind(i, "status")) = 2
        /\ Entry(i, Len(net[i])).resp.code = "transport"
        /\ inv[i].outcome = Returned(FALSE)

\* The sequence of the output files of the downloads among the first n
\* requests of invocation i that were answered 200 (and written whole).
RECURSIVE SavedUpTo(_, _)
SavedUpTo(i, n) ==
    IF n = 0 THEN <<>>
    ELSE IF Entry(i, n).kind = "download" /\ Entry(i, n).resp.code = "200"
         THEN Append(SavedUpTo(i, n - 1), OutputFile(i, Entry(i, n).arg[3]))
         ELSE SavedUpTo(i, n - 1)

\* C36: download_stems attempts every output with a link exactly once and in
\* order, whatever the earlier downloads were answered.  After the all-
\* completed poll k0 the j-th request is the download of the snapshot's j-th
\* output with a link; while the loop runs, the outputs still to come are the
\* rest of that list and saved_files is the list of the files whose download
\* was answered 200 and written whole; once the invocation is over, every
\* output with a link was requested.
C36_EveryOutputOnce ==
    \A i \in Files : \A k0 \in CompletedPolls(i) :
        LET stems == Entry(i, k0).resp.stems
            n == Len(net[i]) - k0
        IN  /\ n <= Len(stems)
            /\ \A j \in 1..n :
                  /\ Entry(i, k0 + j).kind = "download"
                  /\ Entry(i, k0 + j).arg[3] = stems[j]
            /\ inv[i].pc = "download" =>
                  /\ inv[i].stems = SubSeq(stems, n + 1, Len(stems))
                  /\ inv[i].saved_files = SavedUpTo(i, Len(net[i]))
            /\ inv[i].pc = "done" => n = Len(stems)

\* Of two outputs the first download failed and the second was made and saved.
C36_Witness ==
    \E i \in Files : \E k0 \in CompletedPolls(i) :
        /\ inv[i].pc = "done"
        /\ Len(net[i]) = k0 + 2
        /\ Entry(i, k0 + 1).resp.code = "status"
        /\ Entry(i, k0 + 2).resp.code = "200"
        /\ inv[i].outcome = Returned(TRUE)

\* The worker thread of the application is running.
WorkerRuns == gpc \in {"loop", "call", "wait", "log", "errlog"}

\* Invocation i is in the polling loop of wait_for_completion.
Polling(i) == inv[i].pc \in {"poll_check", "poll_fetch", "sleep"}

C31_PollScheduledWhileBatchRuns ==
    mode = "app" => ((WorkerRuns \/ Pending # <<>>) => polling)

Terminal(e) == e.kind \in {"finished", "cancelled"}

\* C32 (as claimed): the events run_batch put so far form a well-formed
\* sequence, whatever the workflow did and whether or not a log write failed.
\* File indices never decrease; a start_file is followed at once by the
\* done_file or the "cancelled" of its file, and a file has at most one
\* done_file; a terminal event is the last event; and once the worker is over
\* the last event is a terminal one.
C32_EventsWellFormed ==
    mode \in {"gui", "app"} =>
        /\ \A j, k \in DOMAIN events : j < k => events[j].index <= events[k].index
        /\ \A k \in DOMAIN events :
              /\ (events[k].kind = "start_file" /\ k < Len(events)) =>
                    /\ events[k + 1].kind \in {"done_file", "cancelled"}
                    /\ events[k + 1].index = events[k].index
              /\ events[k].kind = "done_file" =>
                    /\ k > 1
                    /\ events[k - 1].kind = "start_file"
                    /\ events[k - 1].index = events[k].index
              /\ Terminal(events[k]) => k = Len(events)
        /\ gpc \in {"returned", "died"} => (events # <<>> /\ Terminal(events[Len(events)]))

\* The line of files[i] of the worker under way, and the index of the file a
\* line names (the names of a file list differ).
LineOf(i, status) ==
    LET p == paths[nfiles - Total + i + 1] IN
    [name |-> [base |-> p.base, ext |-> p.ext], status |-> status]

IndexOfLine(w) ==
    CHOOSE i \in 0..(Total - 1) : LineOf(i, w.line.status) = w.line

====
